---- MODULE Spec2Model ----
(***************************************************************************)
(* Jaguar Heart (src/jaguar_heart.py): the estimating engine.  One active  *)
(* bid, an assembly catalog, and the recap arithmetic of check_vitals.     *)
(*                                                                         *)
(* Units.  The code computes in binary floating point and rounds what it   *)
(* returns to 2 decimals (margin: 1 decimal).  The model computes the same *)
(* expressions exactly, in fixed point:                                    *)
(*   money            whole cents                                          *)
(*   labor hours      hundredths of an hour                                *)
(*   difficulty       tenths (1.2 is 12)                                   *)
(*   burden           hundredths (1.45 is 145)                             *)
(*   percentages      whole percent                                        *)
(*   margin_pct       tenths of a percent                                  *)
(* An unrounded amount is a pair [w, n] standing for w + n/DEN cents with  *)
(* 0 <= n < DEN.  round() is to the nearest unit; on an exact decimal tie  *)
(* the float's representation error decides, so the direction of a tie is  *)
(* a parameter of rounding: fp_tie holds it for each rounded field of the   *)
(* recap, and the constructor's rounding of the burdened rate may go       *)
(* either way on a tie.                                                    *)
(*                                                                         *)
(* Spec is the engine: start_new_bid, pump_assembly, check_vitals and      *)
(* edits of the catalog, from a freshly constructed JaguarHeart().         *)
(* SpecRecap is check_vitals alone, run on bids built from the catalog,    *)
(* for every direction of every rounding tie.                              *)
(*                                                                         *)
(* Owl Bids (src/owl.bids.py): the win-probability scorer over the bid     *)
(* archive.  SpecOwl is predict_win_probability on MOCK_BID_HISTORY and on *)
(* every archive of up to MaxRecords records.  Scores are whole percents.  *)
(* The signature of predict_win_probability names typing.Any, which the    *)
(* module does not import: the model is of the class as it runs where      *)
(* annotations are not evaluated at definition time.                       *)
(***************************************************************************)
EXTENDS Integers, Sequences, FiniteSets, TLC

\* ------------------------------------------------------------------ bounds
MaxItems == 2          \* line items per bid
NumIds == 2            \* distinct values uuid4().hex[:6] can take in the model
MaxCatalogEdits == 1   \* edits of MOCK_ASSEMBLIES in one run
MaxRecords == 2        \* records of an archive other than MOCK_BID_HISTORY
MaxLogged == 2         \* log_bid_result calls in one run

\* --------------------------------------------------------------- constants
DEN == 10000000        \* denominator of the fractional part of an amount

None == "None"
NoId == 0

VARIABLES
    labor_rate,        \* self.labor_rate, cents per hour
    burden,            \* self.burden, hundredths
    burdened_rate,     \* self.burdened_rate, cents per hour
    current_bid,       \* self.current_bid
    MOCK_ASSEMBLIES,   \* the module-level catalog dict
    fp_tie,            \* how the floating point rounds an exact tie, per field
    last_op,           \* the operation that ran last
    last_args,         \* the arguments it was called with
    bid_ret,           \* value returned by the last start_new_bid
    pump_ret,          \* value returned by the last pump_assembly
    recap,             \* value returned by the last check_vitals
    issued,            \* ids returned by the start_new_bid calls so far
    recapped,          \* line items a recap was last produced from, for the active bid
    catalog_edits,     \* number of catalog edits so far
    proposal_ret,      \* value returned by the last generate_proposal_text
    proposed,          \* the recap a proposal was written from, for the active bid
    replaced,          \* whether the call that ran last replaced a bid that had line items
    history,           \* OwlBids.history, the list MOCK_BID_HISTORY
    report,            \* value returned by the last predict_win_probability
    score_steps,       \* the local score at its start and after each of the three rules
    strategy,          \* value returned by the last suggest_bid_strategy
    intel,             \* value returned by the last OwlBids.analyze_competitor
    scoring,           \* the predict_win_probability call in progress, statement by statement
    raptor_history,    \* RaptorBidHistory.history, the list MOCK_HISTORY
    raptor_ret         \* value returned by the last RaptorBidHistory call

jaguar_vars == <<labor_rate, burden, burdened_rate, current_bid, MOCK_ASSEMBLIES, fp_tie,
                 bid_ret, pump_ret, recap, issued, recapped, catalog_edits,
                 proposal_ret, proposed, replaced>>
owl_vars == <<history, report, score_steps>>
advisor_vars == <<strategy, intel, scoring>>
raptor_vars == <<raptor_history, raptor_ret>>

vars == <<jaguar_vars, owl_vars, advisor_vars, raptor_vars, last_op, last_args>>

\* ------------------------------------------------------------ input sets
Names == {"Warehouse Reno"}
Difficulties == {"NORMAL", "STANDARD", "HIGH_CEILINGS", "OCCUPIED_PREMISES",
                 "CONFINED_SPACE", "UNDERWATER"}
BidIds == 1..NumIds
\* (overhead_pct, profit_pct) arguments of check_vitals
PctInputs == {<<10, 15>>, <<0, 0>>}
\* (overhead_pct, profit_pct) of a what-if recap with an extreme overhead
WhatIfPctInputs == {<<1000, 15>>, <<0, 1500>>}
\* (assembly_sku, qty) arguments of pump_assembly
PumpInputs == {<<"ASM-LIGHT-2x4", 100>>, <<"ASM-SW-1P", 10>>, <<"ASM-REC-20A", -1>>,
               <<"ASM-DOES-NOT-EXIST", 1>>}
\* (assembly_sku, qty) of the line items of the bids the recap arithmetic is run on
RecapInputs == {<<"ASM-LIGHT-2x4", 100>>, <<"ASM-SW-1P", 10>>, <<"ASM-SW-1P", 1>>}
\* (base_labor_rate, labor_burden) arguments of the constructor
DefaultRates == [base_labor_rate |-> 3500, labor_burden |-> 145]
RateConfigs == {DefaultRates, [base_labor_rate |-> 3330, labor_burden |-> 145]}
\* what an edit of the catalog writes, and the entries it is applied to
AltEntries == {[material_cost |-> 1399, labor_hours |-> 55]}
EditableSkus == {"ASM-LIGHT-2x4"}
TieSites == {"labor_hours_adj", "labor_cost_total", "raw_cost",
             "overhead_amt", "profit_amt", "sell_price", "margin_pct"}
\* tie directions explored under the engine specification
TieProfiles == {[site \in TieSites |-> FALSE], [site \in TieSites |-> TRUE]}

\* ------------------------------------------------------------ the catalog
InitialAssemblies ==
    [sku \in {"ASM-REC-20A", "ASM-LIGHT-2x4", "ASM-SW-1P"} |->
        CASE sku = "ASM-REC-20A" ->
                 [name |-> "20A Duplex Receptacle Complete",
                  material_cost |-> 1250, labor_hours |-> 50]
          [] sku = "ASM-LIGHT-2x4" ->
                 [name |-> "2x4 LED Troffer Complete",
                  material_cost |-> 6500, labor_hours |-> 75]
          [] sku = "ASM-SW-1P" ->
                 [name |-> "Single Pole Switch Complete",
                  material_cost |-> 925, labor_hours |-> 45]]

\* ------------------------------------------------- exact decimal arithmetic
Norm(w, n) == [w |-> w + (n \div DEN), n |-> n % DEN]
Whole(c) == [w |-> c, n |-> 0]
Add(x, y) == Norm(x.w + y.w, x.n + y.n)
Sub(x, y) == Norm(x.w - y.w, x.n - y.n)
\* x * k; the fractional part is multiplied in two pieces of at most 4 digits
Scale(x, k) ==
    LET v  == x
        hi == (v.n \div 1000) * k
        lo == (v.n % 1000) * k
        n  == (hi % (DEN \div 1000)) * 1000 + lo
    IN  [w |-> v.w * k + (hi \div (DEN \div 1000)) + (n \div DEN), n |-> n % DEN]
Less(x, y) == x.w < y.w \/ (x.w = y.w /\ x.n < y.n)
IsPositive(x) == x.w > 0 \/ (x.w = 0 /\ x.n > 0)
IsNegative(x) == x.w < 0
\* x / 100, exact because every amount divided here is a multiple of 100/DEN
Div100(x) == [w |-> x.w \div 100, n |-> ((x.w % 100) * DEN + x.n) \div 100]
\* x * (pct // 100): the percentage divided with the floor division
PercentFloorDivision(x, pct) == Scale(x, pct \div 100)

\* x * (pct / 100)
Percent(x, pct) == Scale(Div100(x), pct)

\* round(x) of an amount to whole units; up tells which way a tie goes
Round(x, up) ==
    IF 2 * x.n < DEN THEN x.w
    ELSE IF 2 * x.n > DEN THEN x.w + 1
    ELSE IF up THEN x.w + 1 ELSE x.w

\* round(num / den) for integers, den > 0
RoundRatio(num, den, up) ==
    LET q == num \div den
        r == num % den
    IN  IF 2 * r < den THEN q
        ELSE IF 2 * r > den THEN q + 1
        ELSE IF up THEN q + 1 ELSE q

\* p * 10^digits = q * s + r with 0 <= r < s, for amounts 0 <= p < 10 s; the
\* next digit is looked for between the bounds the whole parts give
RECURSIVE LongDiv(_, _, _)
LongDiv(p, s, digits) ==
    LET prev == LongDiv(p, s, digits - 1)
        rem  == IF digits = 0 THEN p ELSE Scale(prev.r, 10)
        q0   == IF digits = 0 THEN 0 ELSE prev.q
        lo   == IF s.w > 0 THEN rem.w \div (s.w + 1) ELSE 0
        hi   == IF s.w > 0 /\ (rem.w + 1) \div s.w < 9 THEN (rem.w + 1) \div s.w ELSE 9
        d    == IF lo = hi THEN lo
                ELSE CHOOSE k \in lo..hi :
                        ~Less(rem, Scale(s, k)) /\ Less(rem, Scale(s, k + 1))
    IN  [q |-> q0 * 10 + d, r |-> Sub(rem, Scale(s, d))]

\* round(p / (s - p) * 10^digits): the profit as a share of the cost
RoundQuotientOfCost(p, s, digits, up) ==
    LET cost == Sub(s, p)
        neg  == IsNegative(p)
        a    == IF neg THEN Sub(Whole(0), p) ELSE p
        d    == LongDiv(a, cost, digits)
        r2   == Scale(d.r, 2)
        mag  == IF Less(r2, cost) THEN d.q
                ELSE IF Less(cost, r2) THEN d.q + 1
                ELSE IF up = neg THEN d.q ELSE d.q + 1
    IN  IF neg THEN 0 - mag ELSE mag

\* round(p / s * 10^digits) for amounts p and s > 0
RoundQuotient(p, s, digits, up) ==
    LET neg == IsNegative(p)
        a   == IF neg THEN Sub(Whole(0), p) ELSE p
        d   == LongDiv(a, s, digits)
        r2  == Scale(d.r, 2)
        mag == IF Less(r2, s) THEN d.q
               ELSE IF Less(s, r2) THEN d.q + 1
               ELSE IF up = neg THEN d.q ELSE d.q + 1
    IN  IF neg THEN 0 - mag ELSE mag

\* ---------------------------------------------------------- JaguarHeart
RECURSIVE SumMat(_)
SumMat(items) ==
    IF items = <<>> THEN 0 ELSE Head(items).total_mat_cost + SumMat(Tail(items))

\* the sum ended after the first line item
SumHoursFirstLine(items) ==
    IF items = <<>> THEN 0 ELSE Head(items).total_labor_hours

RECURSIVE SumHours(_)
SumHours(items) ==
    IF items = <<>> THEN 0 ELSE Head(items).total_labor_hours + SumHours(Tail(items))

\* round(base_labor_rate * labor_burden, 2)
BurdenedRate(base_labor_rate, labor_burden, up) ==
    RoundRatio(base_labor_rate * labor_burden, 100, up)

\* the multipliers of CONFINED_SPACE and OCCUPIED_PREMISES exchanged
DifficultyFactorSwapped(difficulty) ==
    IF difficulty = "HIGH_CEILINGS" THEN 12
    ELSE IF difficulty = "CONFINED_SPACE" THEN 13
    ELSE IF difficulty = "OCCUPIED_PREMISES" THEN 15
    ELSE 10

\* the difficulty multiplier of start_new_bid, in tenths
DifficultyFactor(difficulty) ==
    IF difficulty = "HIGH_CEILINGS" THEN 12
    ELSE IF difficulty = "CONFINED_SPACE" THEN 15
    ELSE IF difficulty = "OCCUPIED_PREMISES" THEN 13
    ELSE 10

\* the line_item dict with the unit values as its totals
LineItemUnitTotals(assembly_sku, assembly, qty) ==
    [sku |-> assembly_sku,
     name |-> assembly.name,
     qty |-> qty,
     unit_mat_cost |-> assembly.material_cost,
     unit_labor_hours |-> assembly.labor_hours,
     total_mat_cost |-> assembly.material_cost,
     total_labor_hours |-> assembly.labor_hours]

\* the line_item dict pump_assembly builds; cents * qty and hundredths * qty
\* are whole, so round(.., 2) leaves them as they are
LineItem(assembly_sku, assembly, qty) ==
    [sku |-> assembly_sku,
     name |-> assembly.name,
     qty |-> qty,
     unit_mat_cost |-> assembly.material_cost,
     unit_labor_hours |-> assembly.labor_hours,
     total_mat_cost |-> assembly.material_cost * qty,
     total_labor_hours |-> assembly.labor_hours * qty]

\* labor cost with a charge of at least one hour
LaborCostMinimumCharge(adjusted_thousandths, rate) ==
    LET billed == IF adjusted_thousandths < 1000 THEN 1000 ELSE adjusted_thousandths
    IN  Norm((billed \div 1000) * rate + (((billed % 1000) * rate) \div 1000),
             (((billed % 1000) * rate) % 1000) * (DEN \div 1000))

\* adjusted_labor_hours * self.burdened_rate: thousandths of an hour times
\* cents per hour, as an amount in cents
LaborCost(adjusted_thousandths, rate) ==
    LET q == adjusted_thousandths \div 1000
        m == (adjusted_thousandths % 1000) * rate
    IN  Norm(q * rate + (m \div 1000), (m % 1000) * (DEN \div 1000))

\* material total recomputed from the catalog as it is now
RECURSIVE SumMatLive(_)
SumMatLive(items) ==
    IF items = <<>> THEN 0
    ELSE MOCK_ASSEMBLIES[Head(items).sku].material_cost * Head(items).qty
         + SumMatLive(Tail(items))

\* sum(item['total_mat_cost'] for item in items)
TotalMat(items) == SumMat(items)

\* self.labor_rate, the wage without the burden
HourlyCostUnburdened(rate) == labor_rate

\* the hourly cost of labor check_vitals multiplies by: self.burdened_rate
HourlyCost(rate) == rate

\* the locals of check_vitals with the profit taken on the raw cost
VitalsExactProfitOnCost(bid, rate, overhead_pct, profit_pct) ==
    LET total_mat         == TotalMat(bid.items)
        base_labor_hours  == SumHours(bid.items)
        adjusted          == base_labor_hours * bid.difficulty_factor
        total_labor_cost  == LaborCost(adjusted, HourlyCost(rate))
        raw_cost          == Add(Whole(total_mat), total_labor_cost)
        overhead_amt      == Percent(raw_cost, overhead_pct)
        break_even        == Add(raw_cost, overhead_amt)
        profit_amt        == Percent(raw_cost, profit_pct)
        sell_price        == Add(break_even, profit_amt)
    IN  [total_mat |-> total_mat, base_labor_hours |-> base_labor_hours,
         adjusted_labor_hours |-> adjusted, total_labor_cost |-> total_labor_cost,
         raw_cost |-> raw_cost, overhead_amt |-> overhead_amt,
         break_even |-> break_even, profit_amt |-> profit_amt,
         sell_price |-> sell_price]

\* the unrounded locals of check_vitals
VitalsExact(bid, rate, overhead_pct, profit_pct) ==
    LET total_mat         == TotalMat(bid.items)
        base_labor_hours  == SumHours(bid.items)
        adjusted          == base_labor_hours * bid.difficulty_factor
        total_labor_cost  == LaborCost(adjusted, HourlyCost(rate))
        raw_cost          == Add(Whole(total_mat), total_labor_cost)
        overhead_amt      == Percent(raw_cost, overhead_pct)
        break_even        == Add(raw_cost, overhead_amt)
        profit_amt        == Percent(break_even, profit_pct)
        sell_price        == Add(break_even, profit_amt)
    IN  [total_mat |-> total_mat, base_labor_hours |-> base_labor_hours,
         adjusted_labor_hours |-> adjusted, total_labor_cost |-> total_labor_cost,
         raw_cost |-> raw_cost, overhead_amt |-> overhead_amt,
         break_even |-> break_even, profit_amt |-> profit_amt,
         sell_price |-> sell_price]

\* the dict check_vitals returns
Vitals(bid, rate, overhead_pct, profit_pct) ==
    LET x == VitalsExact(bid, rate, overhead_pct, profit_pct)
    IN  [estimate_id      |-> bid.id,
         project          |-> bid.name,
         material_total   |-> x.total_mat,
         labor_hours_base |-> x.base_labor_hours,
         labor_hours_adj  |-> RoundRatio(x.adjusted_labor_hours, 10, fp_tie["labor_hours_adj"]),
         labor_cost_total |-> Round(x.total_labor_cost, fp_tie["labor_cost_total"]),
         raw_cost         |-> Round(x.raw_cost, fp_tie["raw_cost"]),
         overhead_amt     |-> Round(x.overhead_amt, fp_tie["overhead_amt"]),
         profit_amt       |-> Round(x.profit_amt, fp_tie["profit_amt"]),
         sell_price       |-> Round(x.sell_price, fp_tie["sell_price"]),
         margin_pct       |-> IF IsPositive(x.sell_price)
                              THEN RoundQuotient(x.profit_amt, x.sell_price, 3,
                                                 fp_tie["margin_pct"])
                              ELSE 0]

NoRecap ==
    [estimate_id |-> NoId, project |-> None, material_total |-> 0,
     labor_hours_base |-> 0, labor_hours_adj |-> 0, labor_cost_total |-> 0,
     raw_cost |-> 0, overhead_amt |-> 0, profit_amt |-> 0, sell_price |-> 0,
     margin_pct |-> 0]

NotRecapped == [done |-> FALSE, items |-> <<>>]

NoProposal == [project |-> None, labor_hours_adj |-> 0,
               total_price |-> [negative |-> FALSE, thousands |-> <<0>>, cents |-> 0]]

NotProposed == [done |-> FALSE, args |-> <<>>, recap |-> NoRecap, interleaved |-> FALSE]

\* the digits of format(n, ","): groups of three, the leading group first
RECURSIVE ThousandsGroups(_)
ThousandsGroups(n) ==
    IF n < 1000 THEN <<n>> ELSE Append(ThousandsGroups(n \div 1000), n % 1000)

\* f"{sell_price:,.2f}" of an amount in cents: sign, grouped dollars, two decimals
FormatPrice(sell_price) ==
    LET magnitude == IF sell_price < 0 THEN 0 - sell_price ELSE sell_price
    IN  [negative |-> sell_price < 0,
         thousands |-> ThousandsGroups(magnitude \div 100),
         cents |-> magnitude % 100]

\* the fields of the recap that generate_proposal_text puts into the letter
ProposalText(r) ==
    [project |-> r.project, labor_hours_adj |-> r.labor_hours_adj,
     total_price |-> FormatPrice(r.sell_price)]

\* the bid archive of src/owl.bids.py
MOCK_BID_HISTORY ==
    << [id |-> "B-001", client |-> "MERCY HEALTH", type |-> "HOSPITAL", value |-> 150000,
        margin |-> 15, outcome |-> "WON", competitor |-> "N/A"],
       [id |-> "B-002", client |-> "MERCY HEALTH", type |-> "CLINIC", value |-> 45000,
        margin |-> 18, outcome |-> "WON", competitor |-> "N/A"],
       [id |-> "B-003", client |-> "OHIO STATE", type |-> "SCHOOL", value |-> 2500000,
        margin |-> 10, outcome |-> "LOST", competitor |-> "ZENITH ELECTRIC"],
       [id |-> "B-004", client |-> "TARGET CORP", type |-> "RETAIL", value |-> 85000,
        margin |-> 12, outcome |-> "LOST", competitor |-> "BUDGET ELECTRIC"],
       [id |-> "B-005", client |-> "MERCY HEALTH", type |-> "HOSPITAL", value |-> 300000,
        margin |-> 14, outcome |-> "WON", competitor |-> "N/A"],
       [id |-> "B-006", client |-> "OHIO STATE", type |-> "DORM", value |-> 1200000,
        margin |-> 8, outcome |-> "LOST", competitor |-> "ZENITH ELECTRIC"],
       [id |-> "B-007", client |-> "LOCAL DINER", type |-> "RETAIL", value |-> 12000,
        margin |-> 25, outcome |-> "WON", competitor |-> "N/A"],
       [id |-> "B-008", client |-> "FACTORY INC", type |-> "INDUSTRIAL", value |-> 500000,
        margin |-> 20, outcome |-> "WON", competitor |-> "N/A"] >>

NoReport == [probability |-> 0, status |-> None, factors |-> <<>>]

NoStrategy == [suggested_margin |-> 0, sell_price |-> 0, profit |-> 0,
               strategy_note |-> None]

\* no predict_win_probability call in progress
NotScoring == [pc |-> "idle"]

\* the archive of src/raptor_bid_history.py
MOCK_HISTORY ==
    << [bid_id |-> "EST-2024-001", project |-> "Mercy ER", amount |-> 250000,
        result |-> "WIN", competitor |-> "N/A", date |-> "2024-06-15"],
       [bid_id |-> "EST-2024-055", project |-> "Walmart Retrofit", amount |-> 180000,
        result |-> "LOSS", competitor |-> "Sparky's Electric", reason |-> "PRICE_HIGH",
        date |-> "2024-08-01"] >>

\* OwlBids and RaptorBidHistory constructed and not yet called
AdvisorsAtRest ==
    /\ strategy = NoStrategy
    /\ intel = None
    /\ scoring = NotScoring
    /\ raptor_history = MOCK_HISTORY
    /\ raptor_ret = None

\* JaguarHeart.__init__
Init ==
    /\ fp_tie \in TieProfiles
    /\ labor_rate = DefaultRates.base_labor_rate
    /\ burden = DefaultRates.labor_burden
    /\ \E up \in BOOLEAN :
          burdened_rate = BurdenedRate(DefaultRates.base_labor_rate,
                                       DefaultRates.labor_burden, up)
    /\ current_bid = [id |-> NoId, name |-> None, items |-> <<>>,
                      difficulty_factor |-> 10]
    /\ MOCK_ASSEMBLIES = InitialAssemblies
    /\ last_op = "__init__"
    /\ last_args = <<>>
    /\ bid_ret = NoId
    /\ pump_ret = FALSE
    /\ recap = NoRecap
    /\ issued = {}
    /\ recapped = NotRecapped
    /\ catalog_edits = 0
    /\ proposal_ret = NoProposal
    /\ proposed = NotProposed
    /\ replaced = FALSE
    /\ history = MOCK_BID_HISTORY
    /\ report = NoReport
    /\ score_steps = <<>>
    /\ AdvisorsAtRest

\* start_new_bid that renames the active bid and keeps its line items
start_new_bid_keeping_items(project_name, difficulty, new_id) ==
    /\ current_bid' = [id |-> new_id, name |-> project_name, items |-> current_bid.items,
                       difficulty_factor |-> DifficultyFactor(difficulty)]
    /\ bid_ret' = new_id
    /\ issued' = issued \cup {new_id}
    /\ recapped' = NotRecapped
    /\ replaced' = (current_bid.items # <<>>)
    /\ UNCHANGED <<owl_vars, advisor_vars, raptor_vars>>
    /\ last_op' = "start_new_bid"
    /\ last_args' = <<project_name, difficulty>>
    /\ pump_ret' = FALSE
    /\ recap' = NoRecap
    /\ proposal_ret' = NoProposal
    /\ proposed' = NotProposed
    /\ UNCHANGED <<labor_rate, burden, burdened_rate, MOCK_ASSEMBLIES, fp_tie,
                   catalog_edits>>

\* JaguarHeart.start_new_bid; new_id is the value of uuid4().hex[:6]
start_new_bid(project_name, difficulty, new_id) ==
    /\ current_bid' = [id |-> new_id, name |-> project_name, items |-> <<>>,
                       difficulty_factor |-> DifficultyFactor(difficulty)]
    /\ bid_ret' = new_id
    /\ issued' = issued \cup {new_id}
    /\ recapped' = NotRecapped
    /\ replaced' = (current_bid.items # <<>>)
    /\ UNCHANGED <<owl_vars, advisor_vars, raptor_vars>>
    /\ last_op' = "start_new_bid"
    /\ last_args' = <<project_name, difficulty>>
    /\ pump_ret' = FALSE
    /\ recap' = NoRecap
    /\ proposal_ret' = NoProposal
    /\ proposed' = NotProposed
    /\ UNCHANGED <<labor_rate, burden, burdened_rate, MOCK_ASSEMBLIES, fp_tie,
                   catalog_edits>>

\* pump_assembly without the not-found return: an unknown sku is priced at zero
pump_assembly_no_lookup_guard(assembly_sku, qty) ==
    /\ Len(current_bid.items) < MaxItems
    /\ current_bid' =
          [current_bid EXCEPT !.items =
              Append(@, LineItem(assembly_sku,
                                 IF assembly_sku \in DOMAIN MOCK_ASSEMBLIES
                                 THEN MOCK_ASSEMBLIES[assembly_sku]
                                 ELSE [name |-> None, material_cost |-> 0, labor_hours |-> 0],
                                 qty))]
    /\ pump_ret' = TRUE
    /\ proposed' = NotProposed
    /\ UNCHANGED <<owl_vars, advisor_vars, raptor_vars>>
    /\ last_op' = "pump_assembly"
    /\ last_args' = <<assembly_sku, qty>>
    /\ bid_ret' = NoId
    /\ recap' = NoRecap
    /\ proposal_ret' = NoProposal
    /\ UNCHANGED <<labor_rate, burden, burdened_rate, MOCK_ASSEMBLIES, fp_tie,
                   issued, recapped, catalog_edits>>
    /\ replaced' = FALSE

\* pump_assembly with items.insert(0, line_item) in place of append
pump_assembly_prepend(assembly_sku, qty) ==
    /\ IF assembly_sku \notin DOMAIN MOCK_ASSEMBLIES
       THEN /\ pump_ret' = FALSE
            /\ UNCHANGED <<current_bid, proposed>>
       ELSE /\ Len(current_bid.items) < MaxItems
            /\ current_bid' =
                  [current_bid EXCEPT !.items =
                      <<LineItem(assembly_sku, MOCK_ASSEMBLIES[assembly_sku], qty)>> \o @]
            /\ pump_ret' = TRUE
            /\ proposed' = NotProposed
    /\ UNCHANGED <<owl_vars, advisor_vars, raptor_vars>>
    /\ last_op' = "pump_assembly"
    /\ last_args' = <<assembly_sku, qty>>
    /\ bid_ret' = NoId
    /\ recap' = NoRecap
    /\ proposal_ret' = NoProposal
    /\ UNCHANGED <<labor_rate, burden, burdened_rate, MOCK_ASSEMBLIES, fp_tie,
                   issued, recapped, catalog_edits>>
    /\ replaced' = FALSE

\* JaguarHeart.pump_assembly
pump_assembly(assembly_sku, qty) ==
    /\ IF assembly_sku \notin DOMAIN MOCK_ASSEMBLIES
       THEN /\ pump_ret' = FALSE
            /\ UNCHANGED <<current_bid, proposed>>
       ELSE /\ Len(current_bid.items) < MaxItems
            /\ current_bid' =
                  [current_bid EXCEPT !.items =
                      Append(@, LineItem(assembly_sku, MOCK_ASSEMBLIES[assembly_sku], qty))]
            /\ pump_ret' = TRUE
            /\ proposed' = NotProposed
    /\ UNCHANGED <<owl_vars, advisor_vars, raptor_vars>>
    /\ last_op' = "pump_assembly"
    /\ last_args' = <<assembly_sku, qty>>
    /\ bid_ret' = NoId
    /\ recap' = NoRecap
    /\ proposal_ret' = NoProposal
    /\ UNCHANGED <<labor_rate, burden, burdened_rate, MOCK_ASSEMBLIES, fp_tie,
                   issued, recapped, catalog_edits>>
    /\ replaced' = FALSE

\* check_vitals that writes the difficulty-adjusted hours back into the line items
check_vitals_in_place(overhead_pct, profit_pct) ==
    /\ recap' = Vitals(current_bid, burdened_rate, overhead_pct, profit_pct)
    /\ current_bid' =
          [current_bid EXCEPT !.items =
              [i \in DOMAIN @ |->
                  [@[i] EXCEPT !.total_labor_hours =
                      (@ * current_bid.difficulty_factor) \div 10]]]
    /\ recapped' = [done |-> TRUE, items |-> current_bid'.items]
    /\ proposed' = [proposed EXCEPT !.interleaved =
                        @ \/ (proposed.done /\ proposed.args # <<overhead_pct, profit_pct>>)]
    /\ UNCHANGED <<owl_vars, advisor_vars, raptor_vars>>
    /\ last_op' = "check_vitals"
    /\ last_args' = <<overhead_pct, profit_pct>>
    /\ bid_ret' = NoId
    /\ pump_ret' = FALSE
    /\ proposal_ret' = NoProposal
    /\ UNCHANGED <<labor_rate, burden, burdened_rate, MOCK_ASSEMBLIES,
                   fp_tie, issued, catalog_edits>>
    /\ replaced' = FALSE

\* JaguarHeart.check_vitals
check_vitals(overhead_pct, profit_pct) ==
    /\ recap' = Vitals(current_bid, burdened_rate, overhead_pct, profit_pct)
    /\ recapped' = [done |-> TRUE, items |-> current_bid.items]
    /\ proposed' = [proposed EXCEPT !.interleaved =
                        @ \/ (proposed.done /\ proposed.args # <<overhead_pct, profit_pct>>)]
    /\ UNCHANGED <<owl_vars, advisor_vars, raptor_vars>>
    /\ last_op' = "check_vitals"
    /\ last_args' = <<overhead_pct, profit_pct>>
    /\ bid_ret' = NoId
    /\ pump_ret' = FALSE
    /\ proposal_ret' = NoProposal
    /\ UNCHANGED <<labor_rate, burden, burdened_rate, current_bid, MOCK_ASSEMBLIES,
                   fp_tie, issued, catalog_edits>>
    /\ replaced' = FALSE

\* an edit of an entry of the module-level MOCK_ASSEMBLIES dict
update_catalog(sku, entry) ==
    /\ catalog_edits < MaxCatalogEdits
    /\ MOCK_ASSEMBLIES[sku].material_cost # entry.material_cost
    /\ MOCK_ASSEMBLIES' =
          [MOCK_ASSEMBLIES EXCEPT ![sku].material_cost = entry.material_cost,
                                  ![sku].labor_hours = entry.labor_hours]
    /\ catalog_edits' = catalog_edits + 1
    /\ UNCHANGED <<owl_vars, advisor_vars, raptor_vars>>
    /\ last_op' = "update_catalog"
    /\ last_args' = <<sku, entry>>
    /\ bid_ret' = NoId
    /\ pump_ret' = FALSE
    /\ recap' = NoRecap
    /\ proposal_ret' = NoProposal
    /\ UNCHANGED <<labor_rate, burden, burdened_rate, current_bid, fp_tie, issued,
                   recapped, proposed>>
    /\ replaced' = FALSE

\* generate_proposal_text that closes the bid: the line items are cleared
generate_proposal_text_closing(r) ==
    /\ last_op \in {"check_vitals", "generate_proposal_text"}
    /\ proposal_ret' = ProposalText(r)
    /\ current_bid' = [current_bid EXCEPT !.items = <<>>]
    /\ proposed' = IF last_op = "check_vitals"
                   THEN [done |-> TRUE, args |-> last_args, recap |-> r,
                         interleaved |-> FALSE]
                   ELSE proposed
    /\ UNCHANGED <<owl_vars, advisor_vars, raptor_vars>>
    /\ last_op' = "generate_proposal_text"
    /\ last_args' = <<r.estimate_id>>
    /\ bid_ret' = NoId
    /\ pump_ret' = FALSE
    /\ UNCHANGED <<labor_rate, burden, burdened_rate, MOCK_ASSEMBLIES, fp_tie,
                   recap, issued, recapped, catalog_edits>>
    /\ replaced' = FALSE

\* JaguarHeart.generate_proposal_text, called with a recap check_vitals returned
generate_proposal_text(r) ==
    /\ last_op \in {"check_vitals", "generate_proposal_text"}
    /\ proposal_ret' = ProposalText(r)
    /\ proposed' = IF last_op = "check_vitals"
                   THEN [done |-> TRUE, args |-> last_args, recap |-> r,
                         interleaved |-> FALSE]
                   ELSE proposed
    /\ UNCHANGED <<owl_vars, advisor_vars, raptor_vars>>
    /\ last_op' = "generate_proposal_text"
    /\ last_args' = <<r.estimate_id>>
    /\ bid_ret' = NoId
    /\ pump_ret' = FALSE
    /\ UNCHANGED <<labor_rate, burden, burdened_rate, current_bid, MOCK_ASSEMBLIES, fp_tie,
                   recap, issued, recapped, catalog_edits>>
    /\ replaced' = FALSE

\* the values of uuid4().hex[:6] are interchangeable: one that was not drawn
\* before is named by the next number, one that was drawn before by its own
StartNewBid ==
    \E project_name \in Names, difficulty \in Difficulties, new_id \in BidIds :
        /\ new_id \in issued \cup {Cardinality(issued) + 1}
        /\ start_new_bid(project_name, difficulty, new_id)
PumpAssembly == \E inp \in PumpInputs : pump_assembly(inp[1], inp[2])
CheckVitals == \E pct \in PctInputs : check_vitals(pct[1], pct[2])
UpdateCatalog == \E sku \in EditableSkus, entry \in AltEntries : update_catalog(sku, entry)
GenerateProposalText == generate_proposal_text(recap)

Next == StartNewBid \/ PumpAssembly \/ CheckVitals \/ UpdateCatalog \/ GenerateProposalText

Spec == Init /\ [][Next]_vars

\* ---------------------------------------------- the recap arithmetic alone
\* bids that start_new_bid followed by pump_assembly calls build from the catalog
RecapLineItems == {LineItem(inp[1], InitialAssemblies[inp[1]], inp[2]) : inp \in RecapInputs}
RecapBids ==
    {[id |-> 1, name |-> project_name, items |-> items,
      difficulty_factor |-> DifficultyFactor(difficulty)] :
        project_name \in Names, difficulty \in Difficulties,
        items \in UNION {[1..k -> RecapLineItems] : k \in 0..MaxItems}}

InitRecap ==
    /\ fp_tie \in [TieSites -> BOOLEAN]
    /\ \E cfg \in RateConfigs, up \in BOOLEAN :
          /\ labor_rate = cfg.base_labor_rate
          /\ burden = cfg.labor_burden
          /\ burdened_rate = BurdenedRate(cfg.base_labor_rate, cfg.labor_burden, up)
    /\ current_bid \in RecapBids
    /\ MOCK_ASSEMBLIES = InitialAssemblies
    /\ last_op = "__init__"
    /\ last_args = <<>>
    /\ bid_ret = NoId
    /\ pump_ret = FALSE
    /\ recap = NoRecap
    /\ issued = {current_bid.id}
    /\ recapped = NotRecapped
    /\ catalog_edits = 0
    /\ proposal_ret = NoProposal
    /\ proposed = NotProposed
    /\ replaced = FALSE
    /\ history = MOCK_BID_HISTORY
    /\ report = NoReport
    /\ score_steps = <<>>
    /\ AdvisorsAtRest

\* one recap of each bid: a second one would be computed from the same state
RecapDefault == last_op = "__init__" /\ CheckVitals
RecapWhatIf ==
    last_op = "__init__" /\ \E pct \in WhatIfPctInputs : check_vitals(pct[1], pct[2])

NextRecap == RecapDefault \/ RecapWhatIf

SpecRecap == InitRecap /\ [][NextRecap]_vars

\* ---------------------------------------------------------------- OwlBids
\* arguments of predict_win_probability
OwlClients == {"MERCY HEALTH", "UNKNOWN SCHOOL"}
OwlJobTypes == {"HOSPITAL", "SCHOOL"}
OwlValues == {9999, 10000, 200000, 500000, 500001, 2000000, 2000001}

\* the records the archives other than MOCK_BID_HISTORY are made of
ArchiveRecords ==
    {[id |-> "B-000", client |-> c, type |-> t, value |-> 100000, margin |-> 15,
      outcome |-> o, competitor |-> "N/A"] :
        c \in {"MERCY HEALTH", "OHIO STATE"}, t \in OwlJobTypes, o \in {"WON", "LOST"}}

\* ten records of one client, the first wins of them WON and the others LOST
TenRecords(wins) ==
    [i \in 1..10 |->
        [id |-> "B-000", client |-> "MERCY HEALTH", type |-> "CLINIC", value |-> 100000,
         margin |-> 15, outcome |-> IF i <= wins THEN "WON" ELSE "LOST",
         competitor |-> "N/A"]]

\* contents of self.history
Archives ==
    {MOCK_BID_HISTORY, TenRecords(7), TenRecords(3)}
        \cup UNION {[1..k -> ArchiveRecords] : k \in 0..MaxRecords}

\* len([b for b in archive if b['client'] == client and b['outcome'] == 'WON'])
ClientWins(archive, client) ==
    Len(SelectSeq(archive, LAMBDA b : b.client = client /\ b.outcome = "WON"))

\* len([b for b in archive if b['client'] == client])
ClientTotal(archive, client) ==
    Len(SelectSeq(archive, LAMBDA b : b.client = client))

\* len([b for b in archive if b['type'] == job_type and b['outcome'] == 'WON'])
SectorWins(archive, job_type) ==
    Len(SelectSeq(archive, LAMBDA b : b.type = job_type /\ b.outcome = "WON"))

\* the client rule with the win rate compared by >= 0.7 and <= 0.3
ClientFactorInclusive(archive, client) ==
    LET wins  == ClientWins(archive, client)
        total == ClientTotal(archive, client)
    IN  IF total > 0
        THEN IF 10 * wins >= 7 * total
             THEN [add |-> 20, factors |-> <<"Strong Client Relationship (+20)">>]
             ELSE IF 10 * wins <= 3 * total
                  THEN [add |-> 0 - 15, factors |-> <<"Poor Client History (-15)">>]
                  ELSE [add |-> 0, factors |-> <<>>]
        ELSE [add |-> 0, factors |-> <<"New Client (Neutral)">>]

\* 1. CLIENT FACTOR: what the rule adds to score and appends to factors;
\* win_rate = wins / total is compared with 0.7 and 0.3 as 10 wins with 7 total
ClientFactor(archive, client) ==
    LET wins  == ClientWins(archive, client)
        total == ClientTotal(archive, client)
    IN  IF total > 0
        THEN IF 10 * wins > 7 * total
             THEN [add |-> 20, factors |-> <<"Strong Client Relationship (+20)">>]
             ELSE IF 10 * wins < 3 * total
                  THEN [add |-> 0 - 15, factors |-> <<"Poor Client History (-15)">>]
                  ELSE [add |-> 0, factors |-> <<>>]
        ELSE [add |-> 0, factors |-> <<"New Client (Neutral)">>]

\* the sector rule satisfied by a single WON record
SectorFactorSingleWin(archive, job_type) ==
    IF SectorWins(archive, job_type) >= 1
    THEN [add |-> 15, factors |-> <<"Expertise in " \o job_type \o " (+15)">>]
    ELSE [add |-> 0, factors |-> <<>>]

\* 2. SECTOR FACTOR
SectorFactor(archive, job_type) ==
    IF SectorWins(archive, job_type) >= 2
    THEN [add |-> 15, factors |-> <<"Expertise in " \o job_type \o " (+15)">>]
    ELSE [add |-> 0, factors |-> <<>>]

\* the size rule with the sweet spot open at both ends and the risk from 2000000 on
SizeFactorExclusive(est_value) ==
    IF 10000 < est_value /\ est_value < 500000
    THEN [add |-> 10, factors |-> <<"Value in Sweet Spot (+10)">>]
    ELSE IF est_value >= 2000000
         THEN [add |-> 0 - 20, factors |-> <<"High Value / High Risk (-20)">>]
         ELSE [add |-> 0, factors |-> <<>>]

\* the size rule with a risk penalty of 70
SizeFactorHeavyRisk(est_value) ==
    IF 10000 <= est_value /\ est_value <= 500000
    THEN [add |-> 10, factors |-> <<"Value in Sweet Spot (+10)">>]
    ELSE IF est_value > 2000000
         THEN [add |-> 0 - 70, factors |-> <<"High Value / High Risk (-20)">>]
         ELSE [add |-> 0, factors |-> <<>>]

\* the size rule with a sweet-spot bonus of 8
SizeFactorSmallBonus(est_value) ==
    IF 10000 <= est_value /\ est_value <= 500000
    THEN [add |-> 8, factors |-> <<"Value in Sweet Spot (+10)">>]
    ELSE IF est_value > 2000000
         THEN [add |-> 0 - 20, factors |-> <<"High Value / High Risk (-20)">>]
         ELSE [add |-> 0, factors |-> <<>>]

\* 3. SIZE FACTOR
SizeFactor(est_value) ==
    IF 10000 <= est_value /\ est_value <= 500000
    THEN [add |-> 10, factors |-> <<"Value in Sweet Spot (+10)">>]
    ELSE IF est_value > 2000000
         THEN [add |-> 0 - 20, factors |-> <<"High Value / High Risk (-20)">>]
         ELSE [add |-> 0, factors |-> <<>>]

\* the score returned as a fraction of 1 in whole numbers
ClampToFraction(score) == score \div 100

\* min(99, max(1, score))
Clamp(score) ==
    LET floor == IF score > 1 THEN score ELSE 1
    IN  IF floor < 99 THEN floor ELSE 99

\* the traffic light with both thresholds included
StatusInclusive(final_score) ==
    IF final_score >= 75 THEN "GREEN"
    ELSE IF final_score <= 30 THEN "RED"
    ELSE "YELLOW"

\* the "Traffic Light" status
Status(final_score) ==
    IF final_score > 75 THEN "GREEN"
    ELSE IF final_score < 30 THEN "RED"
    ELSE "YELLOW"

\* the factors list with the latest entry first
FactorsNewestFirst(client_factors, sector_factors, size_factors) ==
    size_factors \o sector_factors \o client_factors

\* factors after the three rules appended to it in turn
Factors(client_factors, sector_factors, size_factors) ==
    client_factors \o sector_factors \o size_factors

\* predict_win_probability with the client rule taken off the score
predict_win_probability_client_off(client, job_type, est_value) ==
    /\ LET by_client   == ClientFactor(history, client)
           by_sector   == SectorFactor(history, job_type)
           by_size     == SizeFactor(est_value)
           score       == 50 - by_client.add + by_sector.add + by_size.add
           final_score == Clamp(score)
       IN  /\ report' = [probability |-> final_score,
                         status |-> Status(final_score),
                         factors |-> Factors(by_client.factors, by_sector.factors,
                                             by_size.factors)]
           /\ score_steps' = <<50, 50 + by_client.add,
                               50 + by_client.add + by_sector.add, score>>
    /\ last_op' = "predict_win_probability"
    /\ last_args' = <<client, job_type, est_value>>
    /\ strategy' = NoStrategy
    /\ intel' = None
    /\ UNCHANGED <<history, scoring, jaguar_vars, raptor_vars>>

\* OwlBids.predict_win_probability; round(final_score, 1) of a whole score is
\* the score
predict_win_probability(client, job_type, est_value) ==
    /\ LET by_client   == ClientFactor(history, client)
           by_sector   == SectorFactor(history, job_type)
           by_size     == SizeFactor(est_value)
           score       == 50 + by_client.add + by_sector.add + by_size.add
           final_score == Clamp(score)
       IN  /\ report' = [probability |-> final_score,
                         status |-> Status(final_score),
                         factors |-> Factors(by_client.factors, by_sector.factors,
                                             by_size.factors)]
           /\ score_steps' = <<50, 50 + by_client.add,
                               50 + by_client.add + by_sector.add, score>>
    /\ last_op' = "predict_win_probability"
    /\ last_args' = <<client, job_type, est_value>>
    /\ strategy' = NoStrategy
    /\ intel' = None
    /\ UNCHANGED <<history, scoring, jaguar_vars, raptor_vars>>

\* the engine constructed with the default rates and not yet called
EngineAtRest ==
    /\ fp_tie = [site \in TieSites |-> FALSE]
    /\ labor_rate = DefaultRates.base_labor_rate
    /\ burden = DefaultRates.labor_burden
    /\ burdened_rate = BurdenedRate(DefaultRates.base_labor_rate,
                                    DefaultRates.labor_burden, FALSE)
    /\ current_bid = [id |-> NoId, name |-> None, items |-> <<>>,
                      difficulty_factor |-> 10]
    /\ MOCK_ASSEMBLIES = InitialAssemblies
    /\ last_op = "__init__"
    /\ last_args = <<>>
    /\ bid_ret = NoId
    /\ pump_ret = FALSE
    /\ recap = NoRecap
    /\ issued = {}
    /\ recapped = NotRecapped
    /\ catalog_edits = 0
    /\ proposal_ret = NoProposal
    /\ proposed = NotProposed
    /\ replaced = FALSE

\* OwlBids.__init__ over an archive
InitOwl ==
    /\ history \in Archives
    /\ report = NoReport
    /\ score_steps = <<>>
    /\ AdvisorsAtRest
    /\ EngineAtRest

PredictWinProbability ==
    \E client \in OwlClients, job_type \in OwlJobTypes, est_value \in OwlValues :
        predict_win_probability(client, job_type, est_value)

NextOwl == PredictWinProbability

SpecOwl == InitOwl /\ [][NextOwl]_vars

\* ------------------------------------------------- the strategy advisor
\* base_cost of suggest_bid_strategy, in cents
BaseCosts == {0, 110, 1000, 18000000}

\* a probability_report a caller can hand to suggest_bid_strategy
AnyReports ==
    {[probability |-> p, status |-> st, factors |-> <<>>] :
        p \in 1..99, st \in {"GREEN", "YELLOW", "RED"}}

\* the tiers with the first one starting above 80
TierAboveEighty(prob) ==
    IF prob > 80
    THEN [suggested_margin |-> 20,
          strategy_note |-> "DOMINANT POSITION. Increase margin to 20%. Client pays for quality."]
    ELSE IF 50 <= prob /\ prob <= 80
    THEN [suggested_margin |-> 15,
          strategy_note |-> "STANDARD PLAY. Stick to 15%. Don't leave money on the table."]
    ELSE IF 30 <= prob /\ prob < 50
    THEN [suggested_margin |-> 10,
          strategy_note |-> "WEAK POSITION. If you need this job to feed the guys, cut to 10%. Otherwise, walk away."]
    ELSE [suggested_margin |-> 25,
          strategy_note |-> "DO NOT BID. Probability too low. Submit high 'Courtesy Bid' only."]

\* the if/elif chain on prob: suggested_margin and recommendation
Tier(prob) ==
    IF prob >= 80
    THEN [suggested_margin |-> 20,
          strategy_note |-> "DOMINANT POSITION. Increase margin to 20%. Client pays for quality."]
    ELSE IF 50 <= prob /\ prob < 80
    THEN [suggested_margin |-> 15,
          strategy_note |-> "STANDARD PLAY. Stick to 15%. Don't leave money on the table."]
    ELSE IF 30 <= prob /\ prob < 50
    THEN [suggested_margin |-> 10,
          strategy_note |-> "WEAK POSITION. If you need this job to feed the guys, cut to 10%. Otherwise, walk away."]
    ELSE [suggested_margin |-> 25,
          strategy_note |-> "DO NOT BID. Probability too low. Submit high 'Courtesy Bid' only."]

\* the price as a markup on cost: base_cost * (1 + suggested_margin / 100)
SellPriceAsMarkup(base_cost, suggested_margin, up) ==
    base_cost + RoundRatio(base_cost * suggested_margin, 100, up)

\* round(base_cost / (1 - (suggested_margin / 100)), 2), in cents
SellPrice(base_cost, suggested_margin, up) ==
    RoundRatio(base_cost * 100, 100 - suggested_margin, up)

\* round(sell_price - base_cost, 2) of the price before it is rounded, in cents
StrategyProfit(base_cost, suggested_margin, up) ==
    RoundRatio(base_cost * suggested_margin, 100 - suggested_margin, up)

\* OwlBids.suggest_bid_strategy; sell_up and profit_up tell which way the two
\* round() calls take a value halfway between two cents
suggest_bid_strategy(base_cost, probability_report, sell_up, profit_up) ==
    /\ LET tier == Tier(probability_report.probability)
       IN  strategy' = [suggested_margin |-> tier.suggested_margin,
                        sell_price |-> SellPrice(base_cost, tier.suggested_margin, sell_up),
                        profit |-> StrategyProfit(base_cost, tier.suggested_margin,
                                                  profit_up),
                        strategy_note |-> tier.strategy_note]
    /\ last_op' = "suggest_bid_strategy"
    /\ last_args' = <<base_cost, probability_report>>
    /\ intel' = None
    /\ UNCHANGED <<owl_vars, scoring, jaguar_vars, raptor_vars>>

\* the advisor called on a report someone built, or on the one a first
\* predict_win_probability returned
InitStrategy ==
    /\ \/ history \in Archives /\ report = NoReport
       \/ history = MOCK_BID_HISTORY /\ report \in AnyReports
    /\ score_steps = <<>>
    /\ AdvisorsAtRest
    /\ EngineAtRest

PredictFirst == last_op = "__init__" /\ report = NoReport /\ PredictWinProbability

SuggestBidStrategy ==
    /\ report # NoReport
    /\ \E base_cost \in BaseCosts, sell_up \in BOOLEAN, profit_up \in BOOLEAN :
           suggest_bid_strategy(base_cost, report, sell_up, profit_up)

NextStrategy == PredictFirst \/ SuggestBidStrategy

SpecStrategy == InitStrategy /\ [][NextStrategy]_vars

\* ------------------------------- scoring while the archive is appended to
\* est_value of the calls followed statement by statement
SnapshotValues == {200000}

\* lines 118-127 on the two lists read in lines 115 and 116
ClientRule(client_wins, client_total) ==
    IF client_total > 0
    THEN IF 10 * client_wins > 7 * client_total
         THEN [add |-> 20, factors |-> <<"Strong Client Relationship (+20)">>]
         ELSE IF 10 * client_wins < 3 * client_total
              THEN [add |-> 0 - 15, factors |-> <<"Poor Client History (-15)">>]
              ELSE [add |-> 0, factors |-> <<>>]
    ELSE [add |-> 0, factors |-> <<"New Client (Neutral)">>]

\* lines 131-133 on the list read in line 130
SectorRule(sector_wins, job_type) ==
    IF sector_wins >= 2
    THEN [add |-> 15, factors |-> <<"Expertise in " \o job_type \o " (+15)">>]
    ELSE [add |-> 0, factors |-> <<>>]

\* predict_win_probability is entered: score = 50.0, factors = []
begin_scoring(client, job_type, est_value) ==
    /\ scoring.pc = "idle"
    /\ scoring' = [pc |-> "line 115", client |-> client, job_type |-> job_type,
                   est_value |-> est_value, from |-> Len(history)]
    /\ report' = NoReport
    /\ score_steps' = <<>>
    /\ last_op' = "begin predict_win_probability"
    /\ last_args' = <<client, job_type, est_value>>
    /\ UNCHANGED <<history, strategy, intel, jaguar_vars, raptor_vars>>

\* line 115: client_wins = [b for b in self.history if ...]
read_client_wins ==
    /\ scoring.pc = "line 115"
    /\ scoring' = [pc |-> "line 116", client |-> scoring.client,
                   job_type |-> scoring.job_type, est_value |-> scoring.est_value,
                   from |-> scoring.from,
                   client_wins |-> ClientWins(history, scoring.client)]
    /\ UNCHANGED <<owl_vars, strategy, intel, jaguar_vars, raptor_vars, last_op, last_args>>

\* line 116: client_total = [b for b in self.history if ...]
read_client_total ==
    /\ scoring.pc = "line 116"
    /\ scoring' = [pc |-> "line 130", client |-> scoring.client,
                   job_type |-> scoring.job_type, est_value |-> scoring.est_value,
                   from |-> scoring.from, client_wins |-> scoring.client_wins,
                   client_total |-> ClientTotal(history, scoring.client)]
    /\ UNCHANGED <<owl_vars, strategy, intel, jaguar_vars, raptor_vars, last_op, last_args>>

\* line 130: sector_wins = [b for b in self.history if ...]
read_sector_wins ==
    /\ scoring.pc = "line 130"
    /\ scoring' = [pc |-> "line 135", client |-> scoring.client,
                   job_type |-> scoring.job_type, est_value |-> scoring.est_value,
                   from |-> scoring.from, client_wins |-> scoring.client_wins,
                   client_total |-> scoring.client_total,
                   sector_wins |-> SectorWins(history, scoring.job_type)]
    /\ UNCHANGED <<owl_vars, strategy, intel, jaguar_vars, raptor_vars, last_op, last_args>>

\* lines 135-158: the size rule, the clamp, the status and the return
return_report ==
    /\ scoring.pc = "line 135"
    /\ LET by_client   == ClientRule(scoring.client_wins, scoring.client_total)
           by_sector   == SectorRule(scoring.sector_wins, scoring.job_type)
           by_size     == SizeFactor(scoring.est_value)
           score       == 50 + by_client.add + by_sector.add + by_size.add
           final_score == Clamp(score)
       IN  /\ report' = [probability |-> final_score,
                         status |-> Status(final_score),
                         factors |-> Factors(by_client.factors, by_sector.factors,
                                             by_size.factors)]
           /\ score_steps' = <<50, 50 + by_client.add,
                               50 + by_client.add + by_sector.add, score>>
    /\ scoring' = [pc |-> "idle", from |-> scoring.from, to |-> Len(history)]
    /\ last_op' = "predict_win_probability"
    /\ last_args' = <<scoring.client, scoring.job_type, scoring.est_value>>
    /\ UNCHANGED <<history, strategy, intel, jaguar_vars, raptor_vars>>

\* a new result arrives: another thread appends a record to the list
append_record(record) ==
    /\ Len(history) < MaxRecords
    /\ history' = Append(history, record)
    /\ UNCHANGED <<report, score_steps, advisor_vars, jaguar_vars, raptor_vars,
                   last_op, last_args>>

InitSnapshot ==
    /\ history \in {archive \in Archives : Len(archive) < MaxRecords}
    /\ report = NoReport
    /\ score_steps = <<>>
    /\ AdvisorsAtRest
    /\ EngineAtRest

BeginScoring ==
    \E client \in OwlClients, job_type \in OwlJobTypes, est_value \in SnapshotValues :
        begin_scoring(client, job_type, est_value)

AppendRecord == \E record \in ArchiveRecords : append_record(record)

NextSnapshot ==
    \/ BeginScoring
    \/ read_client_wins
    \/ read_client_total
    \/ read_sector_wins
    \/ return_report
    \/ AppendRecord

SpecSnapshot == InitSnapshot /\ [][NextSnapshot]_vars

\* ------------------------------------------- the two archives and their readers
\* arguments of log_bid_result: bid_id, result, competitor, reason
LogInputs ==
    {<<"EST-2026-001", "WIN", None, None>>,
     <<"EST-2026-002", "LOSS", "Sparky's Electric", "PRICE_HIGH">>,
     <<"EST-2026-001", "WITHDRAWN", None, None>>}

\* datetime.now().strftime("%Y-%m-%d")
Dates == {"2026-01-05"}

RaptorCompetitors == {"Sparky's Electric", "ZENITH ELECTRIC"}
OwlCompetitors == {"ZENITH ELECTRIC", "Sparky's Electric"}

\* the calls of the self-diagnostic of owl.bids.py
DiagnosticPredictions ==
    {<<"MERCY HEALTH", "HOSPITAL", 200000>>, <<"UNKNOWN SCHOOL", "SCHOOL", 3000000>>}
DiagnosticBaseCost == 18000000

\* the entry log_bid_result builds
LogEntry(bid_id, result, competitor, reason, today) ==
    [bid_id |-> bid_id,
     result |-> result,
     competitor |-> IF competitor = None THEN "UNKNOWN" ELSE competitor,
     reason |-> IF reason = None THEN "N/A" ELSE reason,
     date |-> today]

\* the entry put in front of the list
log_bid_result_newest_first(bid_id, result, competitor, reason, today) ==
    /\ Len(raptor_history) < Len(MOCK_HISTORY) + MaxLogged
    /\ raptor_history' =
           <<LogEntry(bid_id, result, competitor, reason, today)>> \o raptor_history
    /\ raptor_ret' = TRUE
    /\ last_op' = "log_bid_result"
    /\ last_args' = <<bid_id, result, competitor, reason, today>>
    /\ UNCHANGED <<owl_vars, advisor_vars, jaguar_vars>>

\* RaptorBidHistory.log_bid_result; today is what datetime.now() gives
log_bid_result(bid_id, result, competitor, reason, today) ==
    /\ Len(raptor_history) < Len(MOCK_HISTORY) + MaxLogged
    /\ raptor_history' =
           Append(raptor_history, LogEntry(bid_id, result, competitor, reason, today))
    /\ raptor_ret' = TRUE
    /\ last_op' = "log_bid_result"
    /\ last_args' = <<bid_id, result, competitor, reason, today>>
    /\ UNCHANGED <<owl_vars, advisor_vars, jaguar_vars>>

\* RaptorBidHistory.analyze_competitor
raptor_analyze_competitor(competitor_name) ==
    /\ LET losses == SelectSeq(raptor_history,
                               LAMBDA h : h.result = "LOSS" /\ h.competitor = competitor_name)
       IN  raptor_ret' = [competitor |-> competitor_name,
                          times_lost_to |-> Len(losses),
                          common_reason |-> IF losses # <<>> THEN "PRICE_HIGH" ELSE "N/A"]
    /\ last_op' = "RaptorBidHistory.analyze_competitor"
    /\ last_args' = <<competitor_name>>
    /\ UNCHANGED <<raptor_history, owl_vars, advisor_vars, jaguar_vars>>

\* RaptorBidHistory.get_win_ratio; the string f"{ratio:.1f}% ({wins}/{total})"
\* as its three numbers, the ratio in tenths of a percent
get_win_ratio ==
    /\ LET total == Len(raptor_history)
           wins  == Len(SelectSeq(raptor_history, LAMBDA h : h.result = "WIN"))
       IN  raptor_ret' = IF total = 0 THEN "0%"
                         ELSE [ratio |-> RoundRatio(wins * 1000, total, FALSE),
                               wins |-> wins, total |-> total]
    /\ last_op' = "get_win_ratio"
    /\ last_args' = <<>>
    /\ UNCHANGED <<raptor_history, owl_vars, advisor_vars, jaguar_vars>>

RECURSIVE SumValues(_)
SumValues(records) ==
    IF records = <<>> THEN 0 ELSE Head(records).value + SumValues(Tail(records))

\* OwlBids.analyze_competitor; the dossier as its verdict, the count and the
\* mean value in cents
analyze_competitor(competitor_name) ==
    /\ LET losses == SelectSeq(history, LAMBDA b : b.competitor = competitor_name)
       IN  intel' = IF losses = <<>> THEN "UNKNOWN ENTITY"
                    ELSE [verdict |-> "DANGEROUS", count |-> Len(losses),
                          avg_loss_value |->
                              RoundRatio(SumValues(losses) * 100, Len(losses), FALSE)]
    /\ last_op' = "OwlBids.analyze_competitor"
    /\ last_args' = <<competitor_name>>
    /\ UNCHANGED <<owl_vars, strategy, scoring, jaguar_vars, raptor_vars>>

\* OwlBids() and RaptorBidHistory() side by side
InitArchive ==
    /\ history = MOCK_BID_HISTORY
    /\ report = NoReport
    /\ score_steps = <<>>
    /\ AdvisorsAtRest
    /\ EngineAtRest

LogBidResult ==
    \E inp \in LogInputs, today \in Dates :
        log_bid_result(inp[1], inp[2], inp[3], inp[4], today)

RaptorAnalyzeCompetitor ==
    \E competitor_name \in RaptorCompetitors : raptor_analyze_competitor(competitor_name)

AnalyzeCompetitor ==
    \E competitor_name \in OwlCompetitors : analyze_competitor(competitor_name)

DiagnosticPredict ==
    \E args \in DiagnosticPredictions : predict_win_probability(args[1], args[2], args[3])

DiagnosticStrategy ==
    /\ report # NoReport
    /\ suggest_bid_strategy(DiagnosticBaseCost, report, FALSE, FALSE)

NextArchive ==
    \/ LogBidResult
    \/ RaptorAnalyzeCompetitor
    \/ get_win_ratio
    \/ AnalyzeCompetitor
    \/ DiagnosticPredict
    \/ DiagnosticStrategy

SpecArchive == InitArchive /\ [][NextArchive]_vars

\* -------------------------------------------------------------- properties
IsPrefix(s, t) == Len(s) <= Len(t) /\ SubSeq(t, 1, Len(s)) = s

C2_NonPositiveQtyRejected ==
    [][(/\ last_op' = "pump_assembly"
        /\ last_args'[1] \in DOMAIN MOCK_ASSEMBLIES
        /\ last_args'[2] <= 0)
          => (pump_ret' = FALSE /\ current_bid'.items = current_bid.items)]_vars

\* C3: check_vitals changes neither the active bid nor the labor rates, and the
\* recap it returns is determined by the bid, the burdened rate and the
\* percentages of this call alone (no percentage of an earlier call is kept).
C3_CheckVitalsPure ==
    [][last_op' = "check_vitals"
          => (/\ current_bid' = current_bid
              /\ labor_rate' = labor_rate
              /\ burden' = burden
              /\ burdened_rate' = burdened_rate
              /\ recap' = Vitals(current_bid', burdened_rate', last_args'[1], last_args'[2]))]_vars

\* a recap with percentages other than those of the recap before it, on a priced bid
C3_Witness ==
    /\ last_op = "check_vitals"
    /\ last_args = <<0, 0>>
    /\ recapped.done
    /\ Len(current_bid.items) = 2
    /\ recap.sell_price = recap.raw_cost
    /\ recap.raw_cost > 0

\* C4 as stated: once a recap has been produced from the active bid, no
\* pump_assembly call changes the bid's line items.
C4_FrozenAfterRecap ==
    [][(recapped.done /\ last_op' = "pump_assembly")
          => current_bid'.items = current_bid.items]_vars

\* C4, amended: the line items a recap was produced from stay the leading line
\* items of the active bid, unchanged and in order; pump_assembly still appends
\* after them.
C4_RecappedItemsKept ==
    recapped.done => IsPrefix(recapped.items, current_bid.items)

C4_Witness ==
    /\ recapped.done
    /\ last_op = "pump_assembly"
    /\ pump_ret = TRUE
    /\ Len(recapped.items) = 1
    /\ Len(current_bid.items) = 2

\* C5: a line item keeps the extended material cost and labor hours computed
\* from the catalog entry as it was when the line was added: a later edit of
\* the catalog changes no line item, and check_vitals totals the stored values.
C5_PricedAtAddTime ==
    [][/\ (MOCK_ASSEMBLIES' # MOCK_ASSEMBLIES) => current_bid' = current_bid
       /\ (last_op' = "pump_assembly" /\ pump_ret')
             => LET item == current_bid'.items[Len(current_bid'.items)]
                    assembly == MOCK_ASSEMBLIES[item.sku]
                IN  /\ item.total_mat_cost = assembly.material_cost * item.qty
                    /\ item.total_labor_hours = assembly.labor_hours * item.qty
                    /\ SubSeq(current_bid'.items, 1, Len(current_bid.items))
                          = current_bid.items
       /\ (last_op' = "check_vitals")
             => /\ recap'.material_total = SumMat(current_bid.items)
                /\ recap'.labor_hours_base = SumHours(current_bid.items)]_vars

\* a recap of a bid holding a line whose catalog entry was edited after the add
C5_Witness ==
    /\ last_op = "check_vitals"
    /\ \E i \in DOMAIN current_bid.items :
          /\ current_bid.items[i].qty > 0
          /\ MOCK_ASSEMBLIES[current_bid.items[i].sku].material_cost
                # current_bid.items[i].unit_mat_cost

\* C6: check_vitals on a bid with no line items (freshly started, or never
\* started) returns a recap whose totals, markups, sell price and margin are 0.
C6_EmptyBidRecapIsZero ==
    (last_op = "check_vitals" /\ current_bid.items = <<>>)
        => /\ recap.material_total = 0
           /\ recap.labor_hours_base = 0
           /\ recap.labor_hours_adj = 0
           /\ recap.labor_cost_total = 0
           /\ recap.raw_cost = 0
           /\ recap.overhead_amt = 0
           /\ recap.profit_amt = 0
           /\ recap.sell_price = 0
           /\ recap.margin_pct = 0

C6_Witness ==
    /\ last_op = "check_vitals"
    /\ last_args = <<10, 15>>
    /\ current_bid.items = <<>>
    /\ current_bid.id # NoId
    /\ current_bid.difficulty_factor = 15

\* C7: no recap check_vitals returns holds a negative material total, labor
\* cost, raw cost, overhead amount, profit amount, sell price or margin.
C7_NoNegativeCurrency ==
    last_op = "check_vitals"
        => /\ recap.material_total >= 0
           /\ recap.labor_cost_total >= 0
           /\ recap.raw_cost >= 0
           /\ recap.overhead_amt >= 0
           /\ recap.profit_amt >= 0
           /\ recap.sell_price >= 0
           /\ recap.margin_pct >= 0

\* the table of the specification, in tenths
SpecifiedFactor(category) ==
    CASE category = "STANDARD" -> 10
      [] category = "HIGH_CEILINGS" -> 12
      [] category = "OCCUPIED_PREMISES" -> 13
      [] category = "CONFINED_SPACE" -> 15
      [] OTHER -> 10

\* C8: start_new_bid gives the bid the factor of the table (any other category:
\* 1.0), and the active bid's factor is always one of 1.0, 1.2, 1.3, 1.5.
C8_DifficultyTable ==
    /\ current_bid.difficulty_factor \in {10, 12, 13, 15}
    /\ current_bid.difficulty_factor >= 10
    /\ last_op = "start_new_bid"
          => current_bid.difficulty_factor = SpecifiedFactor(last_args[2])

C8_Witness ==
    /\ last_op = "start_new_bid"
    /\ last_args[2] = "CONFINED_SPACE"
    /\ current_bid.difficulty_factor = 15

\* C9: the identifier a start_new_bid call returns differs from the identifier
\* every earlier start_new_bid call returned.
C9_UniqueBidIds ==
    [][last_op' = "start_new_bid" => bid_ret' \notin issued]_vars

Abs(x) == IF x < 0 THEN 0 - x ELSE x

\* sum over the line items of unit material cost x quantity
RECURSIVE SumUnitMat(_)
SumUnitMat(items) ==
    IF items = <<>> THEN 0
    ELSE Head(items).unit_mat_cost * Head(items).qty + SumUnitMat(Tail(items))

\* sum over the line items of unit labor hours x quantity
RECURSIVE SumUnitHours(_)
SumUnitHours(items) ==
    IF items = <<>> THEN 0
    ELSE Head(items).unit_labor_hours * Head(items).qty + SumUnitHours(Tail(items))

\* the Warehouse Reno bid: HIGH_CEILINGS, 100 x ASM-LIGHT-2x4, 10 x ASM-SW-1P, 35 x 1.45
IsWarehouseReno ==
    /\ current_bid.name = "Warehouse Reno"
    /\ current_bid.difficulty_factor = 12
    /\ Len(current_bid.items) = 2
    /\ current_bid.items[1].sku = "ASM-LIGHT-2x4" /\ current_bid.items[1].qty = 100
    /\ current_bid.items[2].sku = "ASM-SW-1P" /\ current_bid.items[2].qty = 10
    /\ labor_rate = 3500 /\ burden = 145

WarehouseRenoTotals ==
    /\ recap.material_total = 659250
    /\ recap.labor_hours_base = 7950
    /\ recap.labor_hours_adj = 9540
    /\ recap.labor_cost_total = 484155
    /\ recap.raw_cost = 1143405

\* C10 as stated: the fields of the recap satisfy the rollup equations exactly:
\* material total = sum of unit cost x qty, base hours = sum of unit hours x qty,
\* adjusted hours = base hours x factor, labor cost = adjusted hours x burdened
\* rate, burdened rate = base rate x burden, raw cost = material + labor cost.
C10_ExactRollup ==
    last_op = "check_vitals"
        => /\ recap.material_total = SumUnitMat(current_bid.items)
           /\ recap.labor_hours_base = SumUnitHours(current_bid.items)
           /\ 10 * recap.labor_hours_adj
                 = recap.labor_hours_base * current_bid.difficulty_factor
           /\ 100 * burdened_rate = labor_rate * burden
           /\ 100 * recap.labor_cost_total = recap.labor_hours_adj * burdened_rate
           /\ recap.raw_cost = recap.material_total + recap.labor_cost_total
           /\ IsWarehouseReno => WarehouseRenoTotals

\* C10, amended: the equations hold up to the rounding of each returned field.
\* Material total and base hours are exact; adjusted hours are base hours x
\* factor rounded to 0.01; the burdened rate is base rate x burden rounded to
\* 0.01; labor cost is the unrounded adjusted hours x burdened rate, rounded to
\* 0.01; raw cost is material total + unrounded labor cost, rounded to 0.01, so
\* it is within 0.01 of material total + labor cost; the Warehouse Reno values
\* are as stated.
C10_RoundedRollup ==
    last_op = "check_vitals"
        => LET mat    == SumUnitMat(current_bid.items)
               hours  == SumUnitHours(current_bid.items)
               adj    == hours * current_bid.difficulty_factor
               labor  == adj * burdened_rate
           IN  /\ recap.material_total = mat
               /\ recap.labor_hours_base = hours
               /\ 2 * Abs(10 * recap.labor_hours_adj - adj) <= 10
               /\ 2 * Abs(100 * burdened_rate - labor_rate * burden) <= 100
               /\ 2 * Abs(1000 * recap.labor_cost_total - labor) <= 1000
               /\ 2 * Abs(1000 * (recap.raw_cost - mat) - labor) <= 1000
               /\ Abs(recap.raw_cost - (recap.material_total + recap.labor_cost_total)) <= 1
               /\ IsWarehouseReno => WarehouseRenoTotals

C10_Witness ==
    /\ last_op = "check_vitals"
    /\ IsWarehouseReno
    /\ recap.raw_cost = 1143405

\* |x - y| <= tol for amounts
Within(x, y, tol) ==
    LET d == Sub(x, y)
    IN  ~Less(tol, d) /\ ~Less(d, Sub(Whole(0), tol))

\* c x pct / 100 for whole cents c, as an amount
PercentOfCents(c, pct) ==
    LET low == (c % 100) * pct
    IN  [w |-> (c \div 100) * pct + (low \div 100), n |-> (low % 100) * (DEN \div 100)]

\* half a cent x (1 + pct / 100)
HalfCentAt(pct) ==
    [w |-> (100 + pct) \div 200, n |-> ((100 + pct) % 200) * (DEN \div 200)]

\* C11 as stated: for every percentage the returned fields satisfy, within 0.02,
\* overhead_amt = raw_cost x overhead_pct/100, profit_amt = (raw_cost +
\* overhead_amt) x profit_pct/100, sell_price = raw_cost + overhead_amt +
\* profit_amt; raw cost 11434.05 at 10% and 15% sells at 14464.08 within 0.02.
C11_MarkupWithinTwoCents ==
    last_op = "check_vitals"
        => /\ Within(Whole(recap.overhead_amt),
                     PercentOfCents(recap.raw_cost, last_args[1]), Whole(2))
           /\ Within(Whole(recap.profit_amt),
                     PercentOfCents(recap.raw_cost + recap.overhead_amt, last_args[2]),
                     Whole(2))
           /\ Abs(recap.sell_price
                     - (recap.raw_cost + recap.overhead_amt + recap.profit_amt)) <= 2
           /\ (recap.raw_cost = 1143405 /\ last_args = <<10, 15>>)
                 => Abs(recap.sell_price - 1446408) <= 2

\* C11, amended: the markups are computed from the unrounded raw cost and each
\* returned field is rounded to 0.01 on its own, so on the returned fields
\* overhead_amt is within 0.005 x (1 + overhead_pct/100) of raw_cost x
\* overhead_pct/100, profit_amt is within 0.005 + 0.01 x profit_pct/100 of
\* (raw_cost + overhead_amt) x profit_pct/100, and sell_price is within 0.02 of
\* raw_cost + overhead_amt + profit_amt.  That is within 0.02 for overhead
\* percentages from 0 to 300 and profit percentages from 0 to 150; raw cost
\* 11434.05 at 10% and 15% sells at 14464.08 within 0.02.
C11_MarkupWithinRounding ==
    last_op = "check_vitals"
        => LET overhead_pct == last_args[1]
               profit_pct   == last_args[2]
               overhead     == PercentOfCents(recap.raw_cost, overhead_pct)
               profit       == PercentOfCents(recap.raw_cost + recap.overhead_amt,
                                              profit_pct)
           IN  /\ Within(Whole(recap.overhead_amt), overhead, HalfCentAt(overhead_pct))
               /\ Within(Whole(recap.profit_amt), profit, HalfCentAt(2 * profit_pct))
               /\ overhead_pct \in 0..300
                     => Within(Whole(recap.overhead_amt), overhead, Whole(2))
               /\ profit_pct \in 0..150
                     => Within(Whole(recap.profit_amt), profit, Whole(2))
               /\ Abs(recap.sell_price
                         - (recap.raw_cost + recap.overhead_amt + recap.profit_amt)) <= 2
               /\ (recap.raw_cost = 1143405 /\ overhead_pct = 10 /\ profit_pct = 15)
                     => Abs(recap.sell_price - 1446408) <= 2

\* the recap of Warehouse Reno at 10% overhead and 15% profit
C11_Witness ==
    /\ last_op = "check_vitals"
    /\ last_args = <<10, 15>>
    /\ IsWarehouseReno
    /\ recap.raw_cost = 1143405
    /\ recap.overhead_amt \in {114340, 114341}
    /\ recap.profit_amt = 188662
    /\ recap.sell_price \in {1446407, 1446408}

\* |margin_pct - profit_amt / sell_price x 100| <= tol thousandths of a percent,
\* on the returned fields; profit_amt / sell_price x 100000 lies in [q, q + 1)
MarginWithin(tol) ==
    LET d    == LongDiv(Whole(recap.profit_amt), Whole(recap.sell_price), 5)
        mid  == 100 * recap.margin_pct
    IN  /\ d.q >= mid - tol
        /\ \/ d.q < mid + tol
           \/ (d.q = mid + tol /\ d.r = Whole(0))

\* C12 as stated: when the returned sell_price is greater than 0 the returned
\* margin_pct is within 0.01 of profit_amt / sell_price x 100, and it is 0 when
\* sell_price is 0.
C12_MarginWithinHundredth ==
    last_op = "check_vitals"
        => /\ recap.sell_price > 0 => MarginWithin(10)
           /\ recap.sell_price = 0 => recap.margin_pct = 0

\* C12, amended: margin_pct is profit / sell price x 100 rounded to one decimal,
\* so it is a multiple of 0.1 and, for a sell price of at least 20.00, within
\* 0.1 of the returned profit_amt / sell_price x 100; it is 0 when sell_price
\* is 0.
C12_MarginWithinTenth ==
    last_op = "check_vitals"
        => /\ recap.sell_price >= 2000 => MarginWithin(100)
           /\ recap.sell_price = 0 => recap.margin_pct = 0

\* Warehouse Reno at 10% and 15%: margin 13.0 for 1886.62 / 14464.07 = 13.04...
C12_Witness ==
    /\ last_op = "check_vitals"
    /\ last_args = <<10, 15>>
    /\ IsWarehouseReno
    /\ recap.profit_amt = 188662
    /\ recap.sell_price > 0
    /\ recap.margin_pct = 130

\* the recap of a bid like the active one that holds the i-th line item alone
RecapOfLine(i) ==
    Vitals([current_bid EXCEPT !.items = <<current_bid.items[i]>>], burdened_rate,
           last_args[1], last_args[2])

\* C13 as stated: the material total, the base labor hours and the raw cost of
\* a bid with two line items equal the sums of those of the two bids that hold
\* one of the line items each, under the same difficulty factor.
C13_RollupAdditive ==
    (last_op = "check_vitals" /\ Len(current_bid.items) = 2)
        => /\ recap.material_total
                 = RecapOfLine(1).material_total + RecapOfLine(2).material_total
           /\ recap.labor_hours_base
                 = RecapOfLine(1).labor_hours_base + RecapOfLine(2).labor_hours_base
           /\ recap.raw_cost = RecapOfLine(1).raw_cost + RecapOfLine(2).raw_cost

\* C13, amended: the material total and the base labor hours are additive
\* exactly; the returned raw cost is rounded to 0.01 in each of the three
\* recaps, so it is within 0.01 of the sum of the two single-line raw costs.
C13_RollupAdditiveRounded ==
    (last_op = "check_vitals" /\ Len(current_bid.items) = 2)
        => LET first  == RecapOfLine(1)
               second == RecapOfLine(2)
           IN  /\ recap.material_total = first.material_total + second.material_total
               /\ recap.labor_hours_base = first.labor_hours_base + second.labor_hours_base
               /\ Abs(recap.raw_cost - (first.raw_cost + second.raw_cost)) <= 1

\* 100 x ASM-LIGHT-2x4 and 10 x ASM-SW-1P: 11067.50 + 366.55 = 11434.05
C13_Witness ==
    /\ last_op = "check_vitals"
    /\ IsWarehouseReno
    /\ RecapOfLine(1).raw_cost = 1106750
    /\ RecapOfLine(2).raw_cost = 36655
    /\ recap.raw_cost = 1143405

\* C14: a check_vitals call returns the recap an earlier call with the same
\* percentages returned when the bid was not modified in between, whatever
\* check_vitals and generate_proposal_text calls ran between the two.
C14_RecapDeterministic ==
    (last_op = "check_vitals" /\ proposed.done /\ proposed.args = last_args)
        => recap = proposed.recap

\* the recap of a proposal, asked for again after a recap with other percentages
C14_Witness ==
    /\ last_op = "check_vitals"
    /\ proposed.done
    /\ proposed.interleaved
    /\ proposed.args = last_args
    /\ Len(current_bid.items) = 2
    /\ recap.sell_price > 0


\* ------------------------------------------------- properties of OwlBids
Predicted == last_op = "predict_win_probability"

\* indices of the archive's records of a client, and of a job type
RecordsOfClient(client) == {i \in DOMAIN history : history[i].client = client}
RecordsOfType(job_type) == {i \in DOMAIN history : history[i].type = job_type}
WonRecords == {i \in DOMAIN history : history[i].outcome = "WON"}

\* the entries each rule can put in the factor list
ClientEntries ==
    {"Strong Client Relationship (+20)", "Poor Client History (-15)", "New Client (Neutral)"}
SectorEntries == {"Expertise in " \o t \o " (+15)" : t \in OwlJobTypes}
SizeEntries == {"Value in Sweet Spot (+10)", "High Value / High Risk (-20)"}
ReportedEntries == {report.factors[i] : i \in DOMAIN report.factors}

\* the change of the score made by the k-th rule
StepOf(k) == score_steps[k + 1] - score_steps[k]

\* C15: whatever the archive and the arguments, the probability returned by
\* predict_win_probability is between 1 and 99.
C15_ProbabilityBounds ==
    Predicted => (1 <= report.probability /\ report.probability <= 99)

\* the lowest score the rules give: a poor client and a high-risk value
C15_Witness ==
    /\ Predicted
    /\ score_steps[4] = 15
    /\ report.probability = 15

\* C16: with T the records of exactly this client and W the WON ones among
\* them, the client rule adds 20 when T >= 1 and W/T > 0.7, subtracts 15 when
\* T >= 1 and W/T < 0.3, adds nothing and notes "New Client (Neutral)" when
\* T = 0, and adds nothing and notes nothing for the rates in between; 3 WON
\* and 0 LOST give +20.
C16_ClientFactor ==
    Predicted =>
        LET T == Cardinality(RecordsOfClient(last_args[1]))
            W == Cardinality(RecordsOfClient(last_args[1]) \cap WonRecords)
            noted == ReportedEntries \cap ClientEntries
        IN  /\ (T >= 1 /\ 10 * W > 7 * T) => StepOf(1) = 20
            /\ (T >= 1 /\ 10 * W < 3 * T) => StepOf(1) = 0 - 15
            /\ T = 0 => (StepOf(1) = 0 /\ noted = {"New Client (Neutral)"})
            /\ (T >= 1 /\ 10 * W >= 3 * T /\ 10 * W <= 7 * T)
                   => (StepOf(1) = 0 /\ noted = {})
            /\ (W = 3 /\ T = 3) => StepOf(1) = 20

\* MERCY HEALTH, HOSPITAL, 200000 on MOCK_BID_HISTORY: 3 WON, 0 LOST
C16_Witness ==
    /\ Predicted
    /\ history = MOCK_BID_HISTORY
    /\ last_args = <<"MERCY HEALTH", "HOSPITAL", 200000>>
    /\ Cardinality(RecordsOfClient("MERCY HEALTH") \cap WonRecords) = 3
    /\ Cardinality(RecordsOfClient("MERCY HEALTH")) = 3
    /\ StepOf(1) = 20
    /\ report.status = "GREEN"

\* C17: the sector rule adds 15 exactly when at least 2 WON records of the
\* archive, of whatever client, have the given job type; with fewer it adds
\* nothing and notes nothing.
C17_SectorFactor ==
    Predicted =>
        LET wins == Cardinality(RecordsOfType(last_args[2]) \cap WonRecords)
        IN  /\ (StepOf(2) = 15) <=> (wins >= 2)
            /\ wins < 2 => (StepOf(2) = 0 /\ ReportedEntries \cap SectorEntries = {})

\* two WON records of the job type, of two clients, neither the given client
C17_Witness ==
    /\ Predicted
    /\ Len(history) = 2
    /\ RecordsOfType(last_args[2]) \cap WonRecords = {1, 2}
    /\ history[1].client # history[2].client
    /\ RecordsOfClient(last_args[1]) = {}
    /\ StepOf(2) = 15

\* C18: the size rule adds 10 exactly when 10000 <= est_value <= 500000,
\* subtracts 20 exactly when est_value > 2000000, and changes nothing for
\* every other value.
C18_SizeFactor ==
    Predicted =>
        LET est_value == last_args[3]
        IN  /\ (StepOf(3) = 10) <=> (10000 <= est_value /\ est_value <= 500000)
            /\ (StepOf(3) = 0 - 20) <=> (est_value > 2000000)
            /\ (est_value < 10000 \/ (500000 < est_value /\ est_value <= 2000000))
                   => StepOf(3) = 0

\* the upper end of the sweet spot
C18_Witness ==
    /\ Predicted
    /\ last_args[3] = 500000
    /\ StepOf(3) = 10

\* which rule an entry of the factor list comes from, and the adjustment it names
RuleOf(entry) ==
    IF entry \in ClientEntries THEN 1
    ELSE IF entry \in SectorEntries THEN 2
    ELSE IF entry \in SizeEntries THEN 3
    ELSE 0
AdjustmentNamed(entry) ==
    IF entry = "Strong Client Relationship (+20)" THEN 20
    ELSE IF entry = "Poor Client History (-15)" THEN 0 - 15
    ELSE IF entry \in SectorEntries THEN 15
    ELSE IF entry = "Value in Sweet Spot (+10)" THEN 10
    ELSE IF entry = "High Value / High Risk (-20)" THEN 0 - 20
    ELSE 0
RECURSIVE SumAdjustments(_)
SumAdjustments(entries) ==
    IF entries = <<>> THEN 0
    ELSE AdjustmentNamed(Head(entries)) + SumAdjustments(Tail(entries))

\* C19: the factor list holds at most one client entry, then at most one
\* sector entry, then at most one size entry; every rule that changed the
\* score has its entry, an unseen client has the neutral note, and the
\* returned score is 50 plus the adjustments the list names.
C19_FactorsAudit ==
    Predicted =>
        LET f == report.factors
        IN  /\ \A i \in DOMAIN f : RuleOf(f[i]) \in 1..3
            /\ \A i, j \in DOMAIN f : i < j => RuleOf(f[i]) < RuleOf(f[j])
            /\ \A k \in 1..3 :
                   StepOf(k) # 0 =>
                       \E i \in DOMAIN f :
                           RuleOf(f[i]) = k /\ AdjustmentNamed(f[i]) = StepOf(k)
            /\ RecordsOfClient(last_args[1]) = {}
                   => "New Client (Neutral)" \in ReportedEntries
            /\ report.probability = 50 + SumAdjustments(f)

\* all three rules fired
C19_Witness ==
    /\ Predicted
    /\ Len(report.factors) = 3
    /\ \A k \in 1..3 : StepOf(k) # 0
    /\ report.probability = 50 + StepOf(1) + StepOf(2) + StepOf(3)

\* C20: the status is GREEN exactly when the final score is above 75, RED
\* exactly when it is below 30, and YELLOW otherwise, 75 and 30 included.
C20_TrafficLight ==
    Predicted =>
        /\ (report.status = "GREEN") <=> (report.probability > 75)
        /\ (report.status = "RED") <=> (report.probability < 30)
        /\ (report.status = "YELLOW")
               <=> (30 <= report.probability /\ report.probability <= 75)

\* a score of exactly 75
C20_Witness ==
    /\ Predicted
    /\ report.probability = 75
    /\ report.status = "YELLOW"


\* ------------------------------------ properties of the strategy advisor
Advised == last_op = "suggest_bid_strategy"

\* the strategy notes that tell the estimator not to bid
DoNotBidNotes == {"DO NOT BID. Probability too low. Submit high 'Courtesy Bid' only."}

\* C21: suggest_bid_strategy gives every score of 1..99 one tier: 80 and above
\* a margin of 20, 50 to 79 a margin of 15, 30 to 49 a margin of 10, below 30
\* a margin of 25 with a note that says do not bid, and 25 is the highest of
\* the four margins.
C21_TierMapping ==
    Advised =>
        LET prob == last_args[2].probability
            m    == strategy.suggested_margin
        IN  /\ m \in {10, 15, 20, 25}
            /\ prob >= 80 => m = 20
            /\ (50 <= prob /\ prob <= 79) => m = 15
            /\ (30 <= prob /\ prob <= 49) => m = 10
            /\ prob < 30 => (m = 25 /\ strategy.strategy_note \in DoNotBidNotes)
            /\ prob < 30 => \A other \in {10, 15, 20} : m > other

\* a report with score 25 and a base cost of 180000.00
C21_Witness ==
    /\ Advised
    /\ last_args[1] = 18000000
    /\ last_args[2].probability = 25
    /\ strategy.suggested_margin = 25
    /\ strategy.sell_price = 24000000
    /\ strategy.strategy_note \in DoNotBidNotes

\* sell_price is base_cost / (1 - suggested_margin / 100) to the nearest cent
PriceIsRoundedQuotient ==
    LET d == 100 - strategy.suggested_margin
    IN  /\ d > 0
        /\ 2 * Abs(strategy.sell_price * d - last_args[1] * 100) <= d

\* C22 as stated: the returned sell_price is base_cost / (1 - margin / 100)
\* rounded to cents, the returned profit is the returned sell_price minus
\* base_cost, and no tier makes the divisor zero.
C22_PriceAndProfit ==
    Advised =>
        /\ PriceIsRoundedQuotient
        /\ strategy.profit = strategy.sell_price - last_args[1]

\* C22 as amended: the price and the profit are each rounded to cents from the
\* unrounded price, so the returned profit is the returned sell_price minus
\* base_cost up to one cent.
C22_PriceAndProfitRounded ==
    Advised =>
        LET d == 100 - strategy.suggested_margin
        IN  /\ PriceIsRoundedQuotient
            /\ 2 * Abs(strategy.profit * d - last_args[1] * strategy.suggested_margin) <= d
            /\ Abs(strategy.profit - (strategy.sell_price - last_args[1])) <= 1

\* base cost 1.10 at 20%: the price 1.375 rounded up, the profit 0.275 down
C22_Witness ==
    /\ Advised
    /\ last_args[1] = 110
    /\ strategy.suggested_margin = 20
    /\ strategy.sell_price = 138
    /\ strategy.profit = 27


\* the report predict_win_probability gives on an archive that does not change
ReportOn(archive, client, job_type, est_value) ==
    LET by_client   == ClientFactor(archive, client)
        by_sector   == SectorFactor(archive, job_type)
        by_size     == SizeFactor(est_value)
        final_score == Clamp(50 + by_client.add + by_sector.add + by_size.add)
    IN  [probability |-> final_score,
         status |-> Status(final_score),
         factors |-> Factors(by_client.factors, by_sector.factors, by_size.factors)]

\* C23: a predict_win_probability call that runs while records are appended
\* returns the report of one version of the archive, one the archive went
\* through between the call and the return; its three counts never come from
\* different versions.
C23_ConsistentSnapshot ==
    (Predicted /\ scoring.pc = "idle" /\ scoring # NotScoring) =>
        \E k \in scoring.from..scoring.to :
            report = ReportOn(SubSeq(history, 1, k), last_args[1], last_args[2],
                              last_args[3])


\* C24: the archives are append-only.  log_bid_result adds exactly one record,
\* at the end; log_bid_result, analyze_competitor, get_win_ratio,
\* predict_win_probability and suggest_bid_strategy edit, reorder and remove
\* nothing, so the archive before a step is a prefix of the archive after it.
C24_AppendOnly ==
    [][/\ IsPrefix(raptor_history, raptor_history')
       /\ IsPrefix(history, history')
       /\ last_op' = "log_bid_result"
              => /\ Len(raptor_history') = Len(raptor_history) + 1
                 /\ raptor_history'[Len(raptor_history')] =
                        LogEntry(last_args'[1], last_args'[2], last_args'[3],
                                 last_args'[4], last_args'[5])
                 /\ history' = history
       /\ last_op' # "log_bid_result"
              => (raptor_history' = raptor_history /\ history' = history)]_vars

\* two results logged, a report scored and a strategy drawn from it
C24_Witness ==
    /\ last_op = "log_bid_result"
    /\ Len(raptor_history) = Len(MOCK_HISTORY) + 2
    /\ IsPrefix(MOCK_HISTORY, raptor_history)
    /\ strategy # NoStrategy
    /\ history = MOCK_BID_HISTORY


\* --------------------------------------- properties of the active bid
\* C25: a pump_assembly of a catalog sku appends exactly one line item at the
\* end of the active bid, with the given sku and quantity and with the catalog
\* unit cost and unit hours times the quantity as its extended values; the
\* line items already there and their order, and the bid's id, name and
\* difficulty factor, stay as they were.
C25_PumpAppendsOneItem ==
    [][(last_op' = "pump_assembly" /\ pump_ret')
          => LET n        == Len(current_bid.items)
                 item     == current_bid'.items[n + 1]
                 assembly == MOCK_ASSEMBLIES[last_args'[1]]
             IN  /\ Len(current_bid'.items) = n + 1
                 /\ item.sku = last_args'[1]
                 /\ item.qty = last_args'[2]
                 /\ item.total_mat_cost = assembly.material_cost * last_args'[2]
                 /\ item.total_labor_hours = assembly.labor_hours * last_args'[2]
                 /\ \A i \in 1..n : current_bid'.items[i] = current_bid.items[i]
                 /\ current_bid'.id = current_bid.id
                 /\ current_bid'.name = current_bid.name
                 /\ current_bid'.difficulty_factor = current_bid.difficulty_factor]_vars

\* 100 light fixtures added after 10 switches
C25_Witness ==
    /\ last_op = "pump_assembly"
    /\ pump_ret = TRUE
    /\ last_args = <<"ASM-LIGHT-2x4", 100>>
    /\ Len(current_bid.items) = 2
    /\ current_bid.items[1].sku = "ASM-SW-1P"
    /\ current_bid.items[2].sku = "ASM-LIGHT-2x4"
    /\ current_bid.items[2].total_mat_cost = 100 * current_bid.items[2].unit_mat_cost

RECURSIVE SumStoredMat(_)
SumStoredMat(items) ==
    IF items = <<>> THEN 0
    ELSE items[1].total_mat_cost + SumStoredMat(SubSeq(items, 2, Len(items)))

\* C26: the engine holds one active bid and start_new_bid replaces it.  Right
\* after start_new_bid the active bid has no line item, whatever it held, so a
\* recap taken next is zero; a recap totals the line items of the active bid
\* and nothing else; pump_assembly adds to the bid started last and to no other.
C26_SingleActiveBid ==
    [][/\ last_op' = "start_new_bid"
              => (current_bid'.items = <<>> /\ current_bid'.id = bid_ret')
       /\ last_op' = "pump_assembly"
              => /\ current_bid'.id = current_bid.id
                 /\ IsPrefix(current_bid.items, current_bid'.items)
                 /\ Len(current_bid'.items) <= Len(current_bid.items) + 1
       /\ last_op' = "check_vitals"
              => /\ current_bid' = current_bid
                 /\ recap'.material_total = SumStoredMat(current_bid.items)
                 /\ last_op = "start_new_bid"
                        => (recap'.raw_cost = 0 /\ recap'.sell_price = 0)]_vars

\* a bid with line items replaced by a fresh one
C26_Witness ==
    /\ last_op = "start_new_bid"
    /\ replaced
    /\ current_bid.items = <<>>
    /\ current_bid.id = bid_ret


\* 100 p / (100 + p) in tenths of a percent: the tenth below, and whether the
\* value is below, at or above the middle of that tenth and the next
MarginOfProfitPct(p) ==
    LET q == (1000 * p) \div (100 + p)
        r == (1000 * p) % (100 + p)
    IN  [below |-> q,
         side  |-> IF 2 * r < 100 + p THEN "low"
                   ELSE IF 2 * r > 100 + p THEN "high" ELSE "middle"]

\* a recap of a bid with positive raw cost, at percentages of 0 or more
RecapOfPricedBid ==
    /\ last_op = "check_vitals"
    /\ recap.raw_cost > 0
    /\ last_args[1] >= 0
    /\ last_args[2] >= 0

\* C30 as stated: margin_pct is 100 p / (100 + p) rounded to one decimal (a
\* value halfway between two tenths to the even one, as round() does), whatever
\* the line items, the rates and the overhead percentage.
C30_MarginOfProfitOnly ==
    RecapOfPricedBid =>
        LET m == MarginOfProfitPct(last_args[2])
        IN  recap.margin_pct =
                IF m.side = "low" THEN m.below
                ELSE IF m.side = "high" THEN m.below + 1
                ELSE IF m.below % 2 = 0 THEN m.below ELSE m.below + 1

\* C30, amended: margin_pct is 100 p / (100 + p) rounded to one decimal and
\* depends on p alone, except where that value is exactly halfway between two
\* tenths: there it is one of the two, and which one depends on the bid.
C30_MarginOfProfitUpToTies ==
    RecapOfPricedBid =>
        LET m == MarginOfProfitPct(last_args[2])
        IN  /\ m.side = "low" => recap.margin_pct = m.below
            /\ m.side = "high" => recap.margin_pct = m.below + 1
            /\ m.side = "middle" => recap.margin_pct \in {m.below, m.below + 1}

\* 15% profit on 1000% overhead: 13.0, as on 10% overhead
C30_Witness ==
    /\ RecapOfPricedBid
    /\ last_args = <<1000, 15>>
    /\ recap.margin_pct = 130
    /\ Len(current_bid.items) = 2

\* the raw scores the three rules can add up to
RawScores == {15, 30, 35, 45, 50, 60, 65, 70, 75, 80, 85, 95}

\* C27: the score predict_win_probability computes before clamping is one of
\* 15, 30, 35, 45, 50, 60, 65, 70, 75, 80, 85, 95, so it lies in 15..95 and the
\* clamp to 1..99 returns it unchanged.
C27_RawScores ==
    Predicted =>
        /\ score_steps[4] \in RawScores
        /\ 15 <= score_steps[4] /\ score_steps[4] <= 95
        /\ report.probability = score_steps[4]

\* the highest score: a strong client, an expert sector and a sweet-spot value
C27_Witness ==
    /\ Predicted
    /\ score_steps = <<50, 70, 85, 95>>
    /\ report.probability = 95


\* a strategy computed on the report predict_win_probability returned
AdvisedOnPrediction ==
    /\ Advised
    /\ score_steps # <<>>
    /\ last_args[2] = report

\* C28: on every report predict_win_probability can produce,
\* suggest_bid_strategy gives the margin of 20 exactly when the status is GREEN
\* and the margin of 25 exactly when the status is RED.
C28_StatusAgreesWithTier ==
    AdvisedOnPrediction =>
        /\ (strategy.suggested_margin = 20) <=> (last_args[2].status = "GREEN")
        /\ (strategy.suggested_margin = 25) <=> (last_args[2].status = "RED")

\* the lowest GREEN score, 80, priced at the top tier
C28_Witness ==
    /\ AdvisedOnPrediction
    /\ last_args[2].probability = 80
    /\ last_args[2].status = "GREEN"
    /\ strategy.suggested_margin = 20
    /\ last_args[1] = 1000


\* an archive of WON and LOST records that holds at least one
GrownArchive ==
    /\ history # <<>>
    /\ \A i \in DOMAIN history : history[i].outcome \in {"WON", "LOST"}

\* the score on the archive without its last record, for the same arguments
ScoreBeforeLast ==
    ReportOn(SubSeq(history, 1, Len(history) - 1), last_args[1], last_args[2],
             last_args[3]).probability

\* C29: for an archive of WON and LOST records and fixed arguments, a WON
\* record appended to the archive never lowers the score and a LOST record
\* appended never raises it.
C29_MonotoneInArchive ==
    (Predicted /\ GrownArchive) =>
        /\ history[Len(history)].outcome = "WON" => report.probability >= ScoreBeforeLast
        /\ history[Len(history)].outcome = "LOST" => report.probability <= ScoreBeforeLast

\* the tenth record, LOST, takes the client from 7 of 9 to 7 of 10 and the
\* score from 80 to 60
C29_Witness ==
    /\ Predicted
    /\ GrownArchive
    /\ Len(history) = 10
    /\ history[10].outcome = "LOST"
    /\ last_args = <<"MERCY HEALTH", "HOSPITAL", 200000>>
    /\ ScoreBeforeLast = 80
    /\ report.probability = 60

====
